---- MODULE Spec2Model ----
(***************************************************************************)
(* Model of scripts/validate_yaml.py: the document loader (load_yaml), the *)
(* shape detector (detect_version), the two rule sets (validate_v1,        *)
(* validate_v2), the summary reporters and the driver (main).              *)
(* Two further programs have their own specifications over their own      *)
(* variables: scripts/sync_webapp.py (sync_yaml, SpecSync) and the line    *)
(* loop of scripts/merge_enhancements.py (add_enhancements_to_yaml,        *)
(* SpecMerge).                                                             *)
(*                                                                         *)
(* A parsed YAML value is a record of one fixed shape                      *)
(*     [t, s, n, items]                                                    *)
(* t is the Python type ("null", "str", "int", "bool", "list", "map"),     *)
(* s the text of a str, n the number of an int (1/0 for a bool), items the *)
(* entries of a list or a mapping, each [k, v]: k is the key of a mapping  *)
(* entry ("" in a list), v the value.  A mapping keeps its entries in      *)
(* insertion order, as a Python dict does.                                 *)
(***************************************************************************)
EXTENDS Integers, Sequences, FiniteSets, TLC

VARIABLES
    pc,            \* where main is: start, read, parse, detect, validate, report, exit
    fileExists,    \* os.path.exists(YAML_PATH)
    text,          \* the text load_yaml reads (a sequence of characters)
    doc,           \* the parsed tree main holds
    version,       \* detect_version's answer: "unset" before the call, "none" for None
    errors,        \* the defect list the validator returned
    called,        \* the validator main called: "none", "v1", "v2"
    parserCalled,  \* whether yaml.safe_load was called
    tabLines,      \* the line numbers the tab error carries
    printed,       \* the defect lines main printed, in order
    summary,       \* the summary reporter main called: "none", "v1", "v2"
    traceback,     \* an exception left main uncaught
    exitStatus     \* the process's exit status; -1 while main runs

vars == <<pc, fileExists, text, doc, version, errors, called, parserCalled,
          tabLines, printed, summary, traceback, exitStatus>>

\* scripts/sync_webapp.py
VARIABLES
    syncPc,        \* where sync_yaml is: off, start, mkdir, copy, exit
    source,        \* what is at SOURCE_YAML: [kind, content]
    destDir,       \* what is at DEST_DIR: "absent", "dir", "file"
    destYaml,      \* what is at DEST_YAML: [kind, content, inner]
    syncExit       \* the process's exit status; -1 while sync_yaml runs

syncVars == <<syncPc, source, destDir, destYaml, syncExit>>

\* scripts/merge_enhancements.py, add_enhancements_to_yaml
VARIABLES
    mergePc,                 \* where add_enhancements_to_yaml is: off, loop, write, done
    lines,                   \* content.split('\n'), each line as [indent, body]
    index,                   \* the loop index i
    new_lines,               \* the output lines
    current_domain,          \* the domain key last seen, "None" before the first
    in_framework_alignment,
    in_frameworks,
    last_framework_indent,
    added_key_controls_for_domain,
    written                  \* the lines written back to the file

mergeVars == <<mergePc, lines, index, new_lines, current_domain, in_framework_alignment,
               in_frameworks, last_framework_indent, added_key_controls_for_domain,
               written>>

allVars == <<vars, syncVars, mergeVars>>

---------------------------------------------------------------------------
(* Bounds *)

MaxTextLen == 4

MaxDomains == 2

\* lines of the file add_enhancements_to_yaml rewrites
MaxLines == 4

---------------------------------------------------------------------------
(* Values *)

PyNull == [t |-> "null", s |-> "", n |-> 0, items |-> <<>>]

PyStr(x) == [t |-> "str", s |-> x, n |-> 0, items |-> <<>>]

PyInt(x) == [t |-> "int", s |-> "", n |-> x, items |-> <<>>]

PyBool(b) == [t |-> "bool", s |-> "", n |-> IF b THEN 1 ELSE 0, items |-> <<>>]

PyList(l) == [t |-> "list", s |-> "", n |-> 0,
            items |-> [i \in 1..Len(l) |-> [k |-> "", v |-> l[i]]]]

\* entries: a sequence of [k, v] with distinct keys
PyDict(entries) == [t |-> "map", s |-> "", n |-> 0, items |-> entries]

E(key, val) == [k |-> key, v |-> val]

EmptyDict == PyDict(<<>>)

EmptyList == PyList(<<>>)

Range(f) == {f[i] : i \in DOMAIN f}

\* isinstance(x, dict), isinstance(x, list)
IsDict(x) == x.t = "map"

IsList(x) == x.t = "list"

\* key in d, for a dict d
Has(d, key) == \E i \in 1..Len(d.items) : d.items[i].k = key

\* d[key]
Get(d, key) == d.items[CHOOSE i \in 1..Len(d.items) : d.items[i].k = key].v

\* d.get(key, default)
GetOr(d, key, default) == IF Has(d, key) THEN Get(d, key) ELSE default

\* bool(x)
Truthy(x) ==
    CASE x.t = "null" -> FALSE
      [] x.t = "str" -> x.s # ""
      [] x.t \in {"int", "bool"} -> x.n # 0
      [] OTHER -> Len(x.items) > 0

\* x is None
IsNone(x) == x.t = "null"

IsNumber(x) == x.t \in {"int", "bool"}

\* a == b; a bool equals the int of its value
PyEq(a, b) ==
    IF IsNumber(a) /\ IsNumber(b) THEN a.n = b.n ELSE a = b

\* str(x) as an f-string renders it
Repr(x) ==
    CASE x.t = "null" -> "None"
      [] x.t = "str" -> x.s
      [] x.t = "int" -> ToString(x.n)
      [] x.t = "bool" -> IF x.n = 1 THEN "True" ELSE "False"
      [] x.t = "list" -> "[..]"
      [] OTHER -> "{..}"

\* a in b for two strs. The strs the model compares have equal lengths or a
\* is empty, where the substring test is equality.
StrContains(b, a) == a = "" \/ a = b

\* x in c: "true", "false" or "raise" (TypeError)
PyIn(x, c) ==
    CASE c.t = "map" ->
            IF x.t \in {"list", "map"} THEN "raise"      \* unhashable
            ELSE IF x.t = "str" /\ Has(c, x.s) THEN "true" ELSE "false"
      [] c.t = "list" ->
            IF \E i \in 1..Len(c.items) : PyEq(c.items[i].v, x)
            THEN "true" ELSE "false"
      [] c.t = "str" ->
            IF x.t # "str" THEN "raise"
            ELSE IF StrContains(c.s, x.s) THEN "true" ELSE "false"
      [] OTHER -> "raise"                                 \* not iterable

---------------------------------------------------------------------------
(* load_yaml *)

TAB == "TAB"

LF == "LF"

Chars == {TAB, LF, "x"}

\* '\t' in text
HasTab(t) == \E i \in 1..Len(t) : t[i] = TAB

RECURSIVE splitlines(_)
\* text.splitlines(): a final line break starts no further line
splitlines(t) ==
    IF t = <<>> THEN <<>>
    ELSE IF \E i \in 1..Len(t) : t[i] = LF
         THEN LET p == CHOOSE i \in 1..Len(t) :
                          t[i] = LF /\ \A j \in 1..(i - 1) : t[j] # LF
              IN  <<SubSeq(t, 1, p - 1)>> \o splitlines(SubSeq(t, p + 1, Len(t)))
         ELSE <<t>>

\* [i for i, ln in enumerate(lines) if '\t' in ln], i from 0
TabIndexes(lns) ==
    SelectSeq([j \in 1..Len(lns) |-> j - 1], LAMBDA i : HasTab(lns[i + 1]))

\* the line numbers counted from 0
lines_with_tabs_0(t) == TabIndexes(splitlines(t))

\* [i + 1 for i, ln in enumerate(text.splitlines()) if '\t' in ln]
lines_with_tabs(t) ==
    LET hits == TabIndexes(splitlines(t))
    IN  [k \in 1..Len(hits) |-> hits[k] + 1]

---------------------------------------------------------------------------
(* detect_version *)

detect_version(d) ==
    IF ~IsDict(d) THEN "none"
    ELSE IF Has(d, "aismm") THEN "2.x"
    ELSE IF Has(d, "domains") /\ Has(d, "pillars") THEN "1.x"
    ELSE "none"

---------------------------------------------------------------------------
(* Defects.  A defect string is modelled by its parts: the kind of message, *)
(* the path prefix that names the element, and the names the message cites. *)

Defect(kind, path, names) == [kind |-> kind, path |-> path, names |-> names]

RECURSIVE Concat(_)
Concat(ss) == IF ss = <<>> THEN <<>> ELSE Head(ss) \o Concat(Tail(ss))

NoRaise(errs) == [errors |-> errs, raised |-> FALSE]

Raise(errs) == [errors |-> errs, raised |-> TRUE]

RECURSIVE Chain(_)
\* The bodies of a loop in order: an exception in one ends the loop, and the
\* defects appended so far stay in the list.
Chain(rs) ==
    IF rs = <<>> THEN NoRaise(<<>>)
    ELSE IF Head(rs).raised THEN Head(rs)
    ELSE LET rest == Chain(Tail(rs))
         IN  [errors |-> Head(rs).errors \o rest.errors, raised |-> rest.raised]

RECURSIVE MissingKeys(_, _, _)
\* for field in keys: if field not in d: errors.append(f"{path} missing '{field}'")
MissingKeys(d, keys, path) ==
    IF keys = <<>> THEN <<>>
    ELSE (IF Has(d, Head(keys)) THEN <<>>
          ELSE <<Defect("missing", path, {Head(keys)})>>)
         \o MissingKeys(d, Tail(keys), path)

Keys(d) == {d.items[i].k : i \in 1..Len(d.items)}

---------------------------------------------------------------------------
(* validate_v1 *)

required_keys == <<"version", "name", "description", "scoring_config", "pillars", "domains">>

expected_levels == {"level_1", "level_2", "level_3", "level_4", "level_5"}

V1TopLevel(d) == MissingKeys(d, required_keys, <<>>)

V1ScoringConfig(d) ==
    LET sc == GetOr(d, "scoring_config", EmptyDict)
    IN  IF ~IsDict(sc)
        THEN <<Defect("should_be_mapping", <<"scoring_config">>, {})>>
        ELSE MissingKeys(sc, <<"level_scores", "maturity_thresholds">>, <<"scoring_config">>)

V1Pillar(pid, pdata) ==
    IF ~IsDict(pdata)
    THEN <<Defect("should_be_mapping", <<"pillars", pid>>, {})>>
    ELSE MissingKeys(pdata, <<"id", "name", "description", "weight">>, <<"pillars", pid>>)

V1Pillars(pillars) ==
    IF ~IsDict(pillars)
    THEN <<Defect("should_be_mapping", <<"pillars">>, {})>>
    ELSE Concat([i \in 1..Len(pillars.items) |->
                    V1Pillar(pillars.items[i].k, pillars.items[i].v)])

\* lines 95-108 with the second report made an else of the first
V1LevelsFirstOnly(ddata, prefix) ==
    LET levels == GetOr(ddata, "levels", EmptyDict)
        path == prefix \o <<"levels">>
    IN  IF ~IsDict(levels) THEN <<Defect("should_be_mapping", path, {})>>
        ELSE LET level_keys == Keys(levels)
                 missing == expected_levels \ level_keys
                 extra == level_keys \ expected_levels
             IN  IF level_keys # expected_levels
                 THEN IF missing # {} THEN <<Defect("levels_missing", path, missing)>>
                      ELSE <<Defect("levels_unexpected", path, extra)>>
                 ELSE <<>>

\* lines 95-108
V1Levels(ddata, prefix) ==
    LET levels == GetOr(ddata, "levels", EmptyDict)
        path == prefix \o <<"levels">>
    IN  IF ~IsDict(levels) THEN <<Defect("should_be_mapping", path, {})>>
        ELSE LET level_keys == Keys(levels)
                 missing == expected_levels \ level_keys
                 extra == level_keys \ expected_levels
             IN  IF level_keys # expected_levels
                 THEN (IF missing # {} THEN <<Defect("levels_missing", path, missing)>>
                       ELSE <<>>)
                      \o (IF extra # {} THEN <<Defect("levels_unexpected", path, extra)>>
                          ELSE <<>>)
                 ELSE <<>>

\* lines 110-118: framework_alignment and key_controls
V1OptionalList(ddata, prefix, key) ==
    LET x == GetOr(ddata, key, EmptyList)
    IN  IF Truthy(x) /\ ~IsList(x)
        THEN <<Defect("should_be_list", prefix \o <<key>>, {})>>
        ELSE <<>>

\* lines 127-132 with 'id' and 'type' as the required fields
V1QuestionIdType(q, qprefix) ==
    IF ~IsDict(q) THEN <<Defect("should_be_mapping", qprefix, {})>>
    ELSE MissingKeys(q, <<"id", "type">>, qprefix)

\* lines 124-132, one question
V1Question(q, qprefix) ==
    IF ~IsDict(q) THEN <<Defect("should_be_mapping", qprefix, {})>>
    ELSE MissingKeys(q, <<"id", "text", "question_type">>, qprefix)

\* lines 120-132
V1Questions(ddata, prefix) ==
    LET questions == GetOr(ddata, "questions", EmptyList)
    IN  IF Truthy(questions) /\ ~IsList(questions)
        THEN <<Defect("should_be_list", prefix \o <<"questions">>, {})>>
        ELSE IF Truthy(questions)
        THEN Concat([qi \in 1..Len(questions.items) |->
                        V1Question(questions.items[qi].v,
                                   prefix \o <<"questions", ToString(qi)>>)])
        ELSE <<>>

\* lines 79-132, one domain: the defects it adds, or the TypeError of line 92
V1Domain(did, ddata, pillars) ==
    LET prefix == <<"domains", did>>
    IN  IF ~IsDict(ddata) THEN NoRaise(<<Defect("should_be_mapping", prefix, {})>>)
        ELSE
        LET required == MissingKeys(ddata, <<"id", "name", "description", "pillar">>, prefix)
            pillar_ref == GetOr(ddata, "pillar", PyNull)
            found == IF Truthy(pillar_ref) THEN PyIn(pillar_ref, pillars) ELSE "skip"
        IN  IF found = "raise" THEN Raise(required)
            ELSE NoRaise(
                required
                \o (IF found = "false"
                    THEN <<Defect("pillar_not_found", prefix \o <<"pillar">>,
                                  {Repr(pillar_ref)})>>
                    ELSE <<>>)
                \o V1Levels(ddata, prefix)
                \o V1OptionalList(ddata, prefix, "framework_alignment")
                \o V1OptionalList(ddata, prefix, "key_controls")
                \o V1Questions(ddata, prefix))

V1Domains(domains, pillars) ==
    IF ~IsDict(domains)
    THEN NoRaise(<<Defect("should_be_mapping", <<"domains">>, {})>>)
    ELSE Chain([i \in 1..Len(domains.items) |->
                   V1Domain(domains.items[i].k, domains.items[i].v, pillars)])

\* the defect list, or raised when an exception leaves the function
validate_v1(d) ==
    LET pillars == GetOr(d, "pillars", EmptyDict)
        domains == GetOr(d, "domains", EmptyDict)
        head == V1TopLevel(d) \o V1ScoringConfig(d) \o V1Pillars(pillars)
        rest == V1Domains(domains, pillars)
    IN  [errors |-> head \o rest.errors, raised |-> rest.raised]

---------------------------------------------------------------------------
(* validate_v2 *)

NumLevels == 5

allowed_types == {"multiple_choice", "true_false", "scoring", "free_text", "numeric"}

RECURSIVE Insert(_, _)
Insert(x, s) ==
    IF s = <<>> THEN <<x>>
    ELSE IF x <= Head(s) THEN <<x>> \o s
    ELSE <<Head(s)>> \o Insert(x, Tail(s))

RECURSIVE SortNumbers(_)
SortNumbers(s) == IF s = <<>> THEN <<>> ELSE Insert(Head(s), SortNumbers(Tail(s)))

\* sorted(levels) raises TypeError when it compares two values that have no
\* order: a list of two or more that are not all numbers and not all strs
\* (None, a dict, or a number beside a str).
SortedRaises(levels) ==
    /\ Len(levels) >= 2
    /\ ~(\A i \in 1..Len(levels) : IsNumber(levels[i]))
    /\ ~(\A i \in 1..Len(levels) : levels[i].t = "str")

\* sorted(levels) != [1,2,3,4,5], when sorted does not raise
NotOneToFive(levels) ==
    ~(/\ \A i \in 1..Len(levels) : IsNumber(levels[i])
      /\ SortNumbers([i \in 1..Len(levels) |-> levels[i].n])
            = [i \in 1..NumLevels |-> i])

\* [m.get("level") for m in mls if isinstance(m, dict)]
LevelsOf(mls) ==
    LET dicts == SelectSeq(mls.items, LAMBDA e : IsDict(e.v))
    IN  [i \in 1..Len(dicts) |-> GetOr(dicts[i].v, "level", PyNull)]

\* lines 181-188
V2Mappings(dom, dprefix) ==
    IF ~Has(dom, "mappings") THEN <<>>
    ELSE LET mappings == Get(dom, "mappings")
         IN  IF ~IsDict(mappings)
             THEN <<Defect("should_be_mapping", dprefix \o <<"mappings">>, {})>>
             ELSE Concat([i \in 1..Len(mappings.items) |->
                    IF ~IsList(mappings.items[i].v)
                    THEN <<Defect("should_be_list",
                                  dprefix \o <<"mappings", mappings.items[i].k>>, {})>>
                    ELSE <<>>])

\* lines 190-199
V2MaturityLevels(dom, dprefix) ==
    IF ~Has(dom, "maturity_levels")
    THEN NoRaise(<<Defect("missing", dprefix, {"maturity_levels"})>>)
    ELSE LET mls == Get(dom, "maturity_levels")
         IN  IF ~IsList(mls)
             THEN NoRaise(<<Defect("should_be_list", dprefix \o <<"maturity_levels">>, {})>>)
             ELSE IF SortedRaises(LevelsOf(mls)) THEN Raise(<<>>)
             ELSE IF NotOneToFive(LevelsOf(mls))
             THEN NoRaise(<<Defect("levels_1_to_5", dprefix \o <<"maturity_levels">>, {})>>)
             ELSE NoRaise(<<>>)

\* lines 171-199, one domain
V2Domain(dom, dprefix) ==
    IF ~IsDict(dom) THEN NoRaise(<<Defect("not_a_mapping", dprefix, {})>>)
    ELSE LET head == MissingKeys(dom, <<"id", "id_code">>, dprefix)
                     \o V2Mappings(dom, dprefix)
             ml == V2MaturityLevels(dom, dprefix)
         IN  [errors |-> head \o ml.errors, raised |-> ml.raised]

\* lines 156-199, one component
V2Component(comp, prefix) ==
    IF ~IsDict(comp) THEN NoRaise(<<Defect("not_a_mapping", prefix, {})>>)
    ELSE LET head == MissingKeys(comp, <<"id", "id_code">>, prefix)
             doms == GetOr(comp, "domains", PyNull)
         IN  IF IsNone(doms)
             THEN NoRaise(head \o <<Defect("missing", prefix, {"domains"})>>)
             ELSE IF ~IsList(doms)
             THEN NoRaise(head \o <<Defect("should_be_list", prefix \o <<"domains">>, {})>>)
             ELSE LET rest == Chain([di \in 1..Len(doms.items) |->
                                V2Domain(doms.items[di].v,
                                         prefix \o <<"domains", ToString(di)>>)])
                  IN  [errors |-> head \o rest.errors, raised |-> rest.raised]

\* lines 150-199
V2Components(aismm) ==
    LET comps == GetOr(aismm, "components", PyNull)
    IN  IF IsNone(comps) THEN NoRaise(<<Defect("missing", <<>>, {"components"})>>)
        ELSE IF ~IsList(comps)
        THEN NoRaise(<<Defect("should_be_list", <<"components">>, {})>>)
        ELSE Chain([ci \in 1..Len(comps.items) |->
                      V2Component(comps.items[ci].v, <<"components", ToString(ci)>>)])

\* lines 212-222, one question
V2Question(qq, qpre) ==
    IF ~IsDict(qq) THEN <<Defect("not_a_mapping", qpre, {})>>
    ELSE MissingKeys(qq, <<"id", "type", "title", "help_text", "required">>, qpre)
         \o (LET ty == GetOr(qq, "type", PyNull)
             IN  IF ~(ty.t = "str" /\ ty.s \in allowed_types)
                 THEN <<Defect("unsupported_type", qpre, {Repr(ty)})>>
                 ELSE <<>>)

\* lines 201-222
V2Questionnaire(aismm) ==
    LET q == GetOr(aismm, "assessment_questionnaire", PyNull)
        path == <<"assessment_questionnaire">>
    IN  IF IsNone(q) THEN <<Defect("missing", <<>>, {"assessment_questionnaire"})>>
        ELSE LET questions == IF IsDict(q) THEN GetOr(q, "questions", PyNull) ELSE PyNull
             IN  IF IsNone(questions) THEN <<Defect("missing", path, {"questions"})>>
                 ELSE IF ~IsList(questions)
                 THEN <<Defect("should_be_list", path \o <<"questions">>, {})>>
                 ELSE Concat([qi \in 1..Len(questions.items) |->
                        V2Question(questions.items[qi].v,
                                   path \o <<"questions", ToString(qi)>>)])

\* the defect list, or raised when an exception leaves the function
validate_v2(d) ==
    IF ~Has(d, "aismm") THEN NoRaise(<<Defect("missing", <<>>, {"aismm"})>>)
    ELSE LET aismm == Get(d, "aismm")
         IN  IF ~IsDict(aismm)
             THEN NoRaise(<<Defect("should_be_mapping", <<"aismm">>, {})>>)
             ELSE LET comps == V2Components(aismm)
                  IN  IF comps.raised THEN comps
                      ELSE NoRaise(comps.errors \o V2Questionnaire(aismm))

---------------------------------------------------------------------------
(* print_summary_v1, print_summary_v2: whether the call raises *)

\* len(x) is defined
Sized(x) == x.t \in {"str", "list", "map"}

\* lines 229-243
print_summary_v1_raises(d) ==
    LET pillars == GetOr(d, "pillars", EmptyDict)
        domains == GetOr(d, "domains", EmptyDict)
    IN  \/ ~IsDict(domains)                       \* domains.values()
        \/ \E i \in 1..Len(domains.items) :
              /\ IsDict(domains.items[i].v)
              /\ \/ ~Sized(GetOr(domains.items[i].v, "questions", EmptyList))
                 \/ ~Sized(GetOr(domains.items[i].v, "key_controls", EmptyList))
        \/ ~Sized(pillars)

\* lines 248-256
print_summary_v2_raises(d) ==
    LET aismm == GetOr(d, "aismm", EmptyDict)
    IN  \/ ~IsDict(aismm)                         \* aismm.get
        \/ LET comps == GetOr(aismm, "components", EmptyList)
               q == GetOr(aismm, "assessment_questionnaire", EmptyDict)
           IN  \/ ~Sized(comps)
               \/ /\ IsList(comps)
                  /\ \E i \in 1..Len(comps.items) :
                        /\ IsDict(comps.items[i].v)
                        /\ ~Sized(GetOr(comps.items[i].v, "domains", EmptyList))
               \/ ~IsDict(q)                      \* q.get
               \/ ~Sized(GetOr(q, "questions", EmptyList))

---------------------------------------------------------------------------
(* The documents yaml.safe_load may return *)

Absent == [present |-> FALSE, v |-> PyNull]

Present(x) == [present |-> TRUE, v |-> x]

Entry(key, o) == IF o.present THEN <<E(key, o.v)>> ELSE <<>>

(* Legacy *)

PillarFull ==
    PyDict(<<E("id", PyStr("p1")), E("name", PyStr("n")),
             E("description", PyStr("d")), E("weight", PyInt(1))>>)

PillarNoWeight ==
    PyDict(<<E("id", PyStr("p1")), E("name", PyStr("n")), E("description", PyStr("d"))>>)

PillarsValues ==
    { PyDict(<<E("p1", PillarFull)>>),
      PyDict(<<E("p1", PillarNoWeight)>>),
      PyDict(<<E("p1", PyStr("x")), E("p2", PillarFull)>>),
      PyList(<<PyStr("p1")>>),
      PyStr("p1"),
      PyNull }

AllLevelKeys == <<"level_1", "level_2", "level_3", "level_4", "level_5", "level_6">>

LevelsDict(S) ==
    LET ks == SelectSeq(AllLevelKeys, LAMBDA k : k \in S)
    IN  PyDict([i \in 1..Len(ks) |-> E(ks[i], PyStr("d"))])

LevelKeySets ==
    { (expected_levels \ m) \cup x :
        m \in {{}, {"level_5"}, {"level_2", "level_5"}}, x \in {{}, {"level_6"}} }

LevelsOptions ==
    {Absent, Present(PyStr("x"))} \cup {Present(LevelsDict(S)) : S \in LevelKeySets}

PillarRefOptions ==
    { Absent, Present(PyStr("p1")), Present(PyStr("px")), Present(PyStr("")),
      Present(PyList(<<PyStr("p1")>>)) }

QuestionV1(ty) ==
    PyDict(<<E("id", PyStr("q1")), E("text", PyStr("t")), E("question_type", PyStr(ty))>>)

QuestionV1Typed(ty) ==
    PyDict(<<E("id", PyStr("q1")), E("text", PyStr("t")),
             E("question_type", PyStr("scoring")), E("type", PyStr(ty))>>)

QuestionsOptions ==
    { Absent, Present(PyNull),
      Present(PyList(<<QuestionV1("scoring")>>)),
      Present(PyList(<<QuestionV1("essay")>>)),
      Present(PyList(<<QuestionV1Typed("essay")>>)) }

DomainOf(p, l, q) ==
    PyDict(<<E("id", PyStr("D")), E("name", PyStr("n")), E("description", PyStr("d"))>>
           \o Entry("pillar", p) \o Entry("levels", l) \o Entry("questions", q))

FullLevels == Present(LevelsDict(expected_levels))

\* values of a container field: of the right type and of others, empty and not
ContainerValues ==
    { PyNull, PyStr(""), PyStr("x"), PyInt(0), PyInt(7), PyBool(FALSE),
      EmptyDict, PyDict(<<E("a", PyStr("b"))>>), EmptyList, PyList(<<PyStr("a")>>) }

\* a domain whose one container field key holds val
DomainWith(key, val) ==
    PyDict(<<E("id", PyStr("D")), E("name", PyStr("n")), E("description", PyStr("d")),
             E("pillar", PyStr("p1"))>>
           \o (IF key = "levels" THEN <<>> ELSE <<E("levels", FullLevels.v)>>)
           \o <<E(key, val)>>)

ContainerDomains ==
    { DomainWith(key, val) :
        key \in {"levels", "framework_alignment", "key_controls", "questions"},
        val \in ContainerValues }

\* the first domain of a document
RichDomains ==
    {DomainOf(p, l, q) : p \in PillarRefOptions, l \in LevelsOptions, q \in QuestionsOptions}
    \cup {PyStr("x")}
    \cup ContainerDomains

\* the domains after the first
BasicDomains ==
    { DomainOf(Present(PyStr("p1")), FullLevels, Absent),
      DomainOf(Present(PyStr("px")), FullLevels, Absent),
      DomainOf(Present(PyStr("p1")),
               Present(LevelsDict(expected_levels \cup {"level_6"})), Absent) }

DomainLists ==
    {<<>>} \cup
    UNION { { <<r>> \o bs : r \in RichDomains, bs \in [1..(n - 1) -> BasicDomains] }
            : n \in 1..MaxDomains }

DomainsDict(ds) == PyDict([i \in 1..Len(ds) |-> E("d" \o ToString(i), ds[i])])

DomainsValues == {DomainsDict(ds) : ds \in DomainLists} \cup {PyList(<<>>), PyNull}

ScoringFull ==
    PyDict(<<E("level_scores", EmptyDict), E("maturity_thresholds", EmptyDict)>>)

MetaFull ==
    <<E("version", PyStr("1.0")), E("name", PyStr("n")), E("description", PyStr("d")),
      E("scoring_config", ScoringFull)>>

MetaOptions ==
    { MetaFull,
      <<E("name", PyStr("n")), E("scoring_config", PyDict(<<E("level_scores", EmptyDict)>>))>>,
      <<E("version", PyStr("1.0")), E("name", PyStr("n")), E("description", PyStr("d")),
        E("scoring_config", PyStr("x"))>> }

Legacy(meta, p, d) == PyDict(meta \o <<E("pillars", p), E("domains", d)>>)

BasePillars == PyDict(<<E("p1", PillarFull)>>)

BaseDomains == DomainsDict(<<DomainOf(Present(PyStr("p1")), FullLevels, Absent)>>)

LegacyDocs ==
    {Legacy(MetaFull, p, d) : p \in PillarsValues, d \in DomainsValues}
    \cup {Legacy(m, BasePillars, BaseDomains) : m \in MetaOptions}

(* Structured *)

LevelEntry(x) == PyDict(<<E("level", x), E("name", PyStr("n"))>>)

\* the entries of levels S, ascending or descending
LevelEntries(S, desc) ==
    LET up == SelectSeq([i \in 1..(NumLevels + 1) |-> i], LAMBDA i : i \in S)
    IN  [i \in 1..Len(up) |->
            LevelEntry(PyInt(IF desc THEN up[Len(up) + 1 - i] ELSE up[i]))]

ExtraEntries ==
    { Absent, Present(PyStr("junk")), Present(PyDict(<<E("name", PyStr("n"))>>)),
      Present(LevelEntry(PyInt(1))), Present(LevelEntry(PyStr("1"))),
      Present(LevelEntry(PyBool(TRUE))) }

MaturityLevelsValues ==
    { PyList(LevelEntries(S, desc) \o (IF x.present THEN <<x.v>> ELSE <<>>)) :
        S \in SUBSET (1..(NumLevels + 1)), desc \in BOOLEAN, x \in ExtraEntries }

MaturityLevelsOptions ==
    {Absent, Present(PyStr("x"))} \cup {Present(m) : m \in MaturityLevelsValues}

QuestionV2(ty) ==
    PyDict(<<E("id", PyStr("q1"))>> \o Entry("type", ty)
           \o <<E("title", PyStr("t")), E("help_text", PyStr("h")),
                E("required", PyBool(TRUE))>>)

QuestionnaireOptions ==
    { Absent,
      Present(PyDict(<<E("questions", PyList(<<QuestionV2(Present(PyStr("scoring")))>>))>>)),
      Present(PyDict(<<E("questions", PyList(<<QuestionV2(Present(PyStr("essay")))>>))>>)),
      Present(PyDict(<<E("questions",
            PyList(<<QuestionV2(Present(PyStr("numeric"))), QuestionV2(Absent),
                     PyStr("x")>>))>>)) }

DomainV2(ml) ==
    PyDict(<<E("id", PyStr("D")), E("id_code", PyStr("C"))>> \o Entry("maturity_levels", ml))

ComponentOf(doms) ==
    PyDict(<<E("id", PyStr("K")), E("id_code", PyStr("C"))>> \o Entry("domains", doms))

Structured(comps, q) ==
    PyDict(<<E("aismm",
             PyDict(Entry("components", comps) \o Entry("assessment_questionnaire", q)))>>)

FullMaturityLevels == Present(PyList(LevelEntries(1..NumLevels, FALSE)))

BaseQuestionnaire ==
    Present(PyDict(<<E("questions", PyList(<<QuestionV2(Present(PyStr("scoring")))>>))>>))

BaseComponents == Present(PyList(<<ComponentOf(Present(PyList(<<DomainV2(FullMaturityLevels)>>)))>>))

ComponentsOptions ==
    { Absent, Present(PyStr("x")), Present(PyList(<<PyStr("x")>>)),
      Present(PyList(<<ComponentOf(Absent)>>)),
      Present(PyList(<<ComponentOf(Present(PyStr("x")))>>)),
      Present(PyList(<<ComponentOf(Present(PyList(<<PyStr("x"), DomainV2(FullMaturityLevels)>>)))>>)),
      Present(PyList(<<ComponentOf(Present(PyList(<<
          PyDict(<<E("id", PyStr("D")),
                   E("mappings", PyDict(<<E("nist", PyStr("x")), E("iso", EmptyList)>>)),
                   E("maturity_levels", FullMaturityLevels.v)>>)>>)))>>)) }

StructuredDocs ==
    { Structured(Present(PyList(<<ComponentOf(Present(PyList(<<DomainV2(ml)>>)))>>)), q) :
        ml \in MaturityLevelsOptions, q \in QuestionnaireOptions }
    \cup {Structured(c, BaseQuestionnaire) : c \in ComponentsOptions}
    \cup { PyDict(<<E("aismm", PyStr("x"))>>), PyDict(<<E("aismm", PyNull)>>),
           PyDict(<<E("aismm", EmptyDict)>>),
           PyDict(<<E("aismm", PyDict(<<E("assessment_questionnaire", PyStr("x")),
                                        E("components", EmptyList)>>))>>) }

\* Structured documents whose one container field holds a value of ContainerValues
StructuredContainerDocs ==
    {Structured(Present(v), BaseQuestionnaire) : v \in ContainerValues}
    \cup {Structured(Present(PyList(<<ComponentOf(Present(v))>>)), BaseQuestionnaire) :
            v \in ContainerValues}
    \cup {Structured(Present(PyList(<<ComponentOf(Present(PyList(<<DomainV2(Present(v))>>)))>>)),
                     BaseQuestionnaire) : v \in ContainerValues}
    \cup {Structured(Present(PyList(<<ComponentOf(Present(PyList(<<
                PyDict(<<E("id", PyStr("D")), E("id_code", PyStr("C")), E("mappings", v),
                         E("maturity_levels", FullMaturityLevels.v)>>)>>)))>>)),
                     BaseQuestionnaire) : v \in ContainerValues}
    \cup {Structured(BaseComponents, Present(PyDict(<<E("questions", v)>>))) :
            v \in ContainerValues}
    \cup {Structured(BaseComponents, Present(v)) : v \in ContainerValues}

\* Legacy documents whose scoring_config, pillars or domains holds a value of
\* ContainerValues
LegacyContainerDocs ==
    {Legacy(<<E("version", PyStr("1.0")), E("name", PyStr("n")),
              E("description", PyStr("d")), E("scoring_config", v)>>,
            BasePillars, BaseDomains) : v \in ContainerValues}
    \cup {Legacy(MetaFull, v, BaseDomains) : v \in ContainerValues}
    \cup {Legacy(MetaFull, BasePillars, v) : v \in ContainerValues}

\* the mapping m with only its entries whose key is in keep
Keep(m, keep) == PyDict(SelectSeq(m.items, LAMBDA e : e.k \in keep))

\* a Legacy question with 'id', 'text', 'question_type' and 'type'
QuestionV1AllFields ==
    PyDict(<<E("id", PyStr("q1")), E("text", PyStr("t")),
             E("question_type", PyStr("scoring")), E("type", PyStr("scoring"))>>)

\* Legacy documents with one pillar, one domain or one question that carries
\* any subset of the fields read for it
LegacyFieldDocs ==
    {Legacy(MetaFull, PyDict(<<E("p1", Keep(PillarFull, ks))>>), BaseDomains) :
        ks \in SUBSET {"id", "name", "description", "weight"}}
    \cup {Legacy(MetaFull, BasePillars,
                 PyDict(<<E("d1", Keep(DomainWith("questions", EmptyList),
                                       ks \cup {"levels"}))>>)) :
            ks \in SUBSET {"id", "name", "description", "pillar"}}
    \cup {Legacy(MetaFull, BasePillars,
                 PyDict(<<E("d1", DomainWith("questions",
                                   PyList(<<Keep(QuestionV1AllFields, ks)>>)))>>)) :
            ks \in SUBSET {"id", "text", "question_type", "type"}}

\* Structured documents with one component, one domain or one question that
\* carries any subset of the fields read for it
StructuredFieldDocs ==
    {Structured(Present(PyList(<<
            Keep(ComponentOf(Present(PyList(<<DomainV2(FullMaturityLevels)>>))), ks)>>)),
                BaseQuestionnaire) :
        ks \in SUBSET {"id", "id_code", "domains"}}
    \cup {Structured(Present(PyList(<<ComponentOf(Present(PyList(<<
                Keep(DomainV2(FullMaturityLevels), ks)>>)))>>)), BaseQuestionnaire) :
            ks \in SUBSET {"id", "id_code", "maturity_levels"}}
    \cup {Structured(BaseComponents, Present(PyDict(<<E("questions", PyList(<<
                Keep(QuestionV2(Present(PyStr("scoring"))), ks)>>))>>))) :
            ks \in SUBSET {"id", "type", "title", "help_text", "required"}}

(* both signatures, neither, and roots that are no mapping *)

BothDocs ==
    { PyDict(<<E("aismm", a)>> \o MetaFull
             \o <<E("pillars", BasePillars), E("domains", BaseDomains)>>) :
        a \in { PyStr("x"),
                PyDict(Entry("components", BaseComponents)
                       \o Entry("assessment_questionnaire", BaseQuestionnaire)) } }

NeitherDocs ==
    { EmptyDict, PyDict(MetaFull), PyDict(<<E("domains", BaseDomains)>>),
      PyDict(<<E("pillars", BasePillars)>>) }

NonMappingDocs == {PyNull, PyStr("x"), PyList(<<PyStr("x")>>), PyInt(1)}

Docs ==
    LegacyDocs \cup LegacyContainerDocs \cup LegacyFieldDocs
    \cup StructuredDocs \cup StructuredContainerDocs \cup StructuredFieldDocs
    \cup BothDocs \cup NeitherDocs \cup NonMappingDocs

Texts == UNION {[1..n -> Chars] : n \in 0..MaxTextLen}

---------------------------------------------------------------------------
(* main *)

\* sync_webapp.py is not run
SyncOff ==
    /\ syncPc = "off"
    /\ source = [kind |-> "absent", content |-> ""]
    /\ destDir = "absent"
    /\ destYaml = [kind |-> "absent", content |-> "", inner |-> "none"]
    /\ syncExit = -1

\* merge_enhancements.py is not run
MergeOff ==
    /\ mergePc = "off"
    /\ lines = <<>>
    /\ index = 0
    /\ new_lines = <<>>
    /\ current_domain = "None"
    /\ in_framework_alignment = FALSE
    /\ in_frameworks = FALSE
    /\ last_framework_indent = 0
    /\ added_key_controls_for_domain = {}
    /\ written = <<>>

Init ==
    /\ pc = "start"
    /\ fileExists \in BOOLEAN
    /\ text \in Texts
    /\ fileExists = FALSE => text = <<>>
    /\ doc = PyNull
    /\ version = "unset"
    /\ errors = <<>>
    /\ called = "none"
    /\ parserCalled = FALSE
    /\ tabLines = <<>>
    /\ printed = <<>>
    /\ summary = "none"
    /\ traceback = FALSE
    /\ exitStatus = -1
    /\ SyncOff
    /\ MergeOff

\* sys.exit(code)
Exit(code) == pc' = "exit" /\ exitStatus' = code

\* lines 260-262
CheckPath ==
    /\ pc = "start"
    /\ IF fileExists THEN pc' = "read" /\ exitStatus' = exitStatus ELSE Exit(2)
    /\ UNCHANGED <<fileExists, text, doc, version, errors, called, parserCalled,
                   tabLines, printed, summary, traceback>>
    /\ UNCHANGED <<syncVars, mergeVars>>

\* load_yaml lines 18-19 fail (open or decode): main's except, lines 266-268
ReadFails ==
    /\ pc = "read"
    /\ Exit(2)
    /\ text' = <<>>
    /\ UNCHANGED <<fileExists, doc, version, errors, called, parserCalled,
                   tabLines, printed, summary, traceback>>
    /\ UNCHANGED <<syncVars, mergeVars>>

\* load_yaml lines 18-25: the tab check; its ValueError ends in main's except
ReadText ==
    /\ pc = "read"
    /\ IF HasTab(text)
       THEN /\ tabLines' = lines_with_tabs(text)
            /\ Exit(2)
            /\ text' = text
       ELSE /\ pc' = "parse"
            /\ text' = <<>>
            /\ UNCHANGED <<tabLines, exitStatus>>
    /\ UNCHANGED <<fileExists, doc, version, errors, called, parserCalled,
                   printed, summary, traceback>>
    /\ UNCHANGED <<syncVars, mergeVars>>

\* load_yaml line 26, yaml.safe_load: a tree
ParseYaml ==
    /\ pc = "parse"
    /\ parserCalled' = TRUE
    /\ \E d \in Docs : doc' = d
    /\ pc' = "detect"
    /\ UNCHANGED <<fileExists, text, version, errors, called, tabLines, printed,
                   summary, traceback, exitStatus>>
    /\ UNCHANGED <<syncVars, mergeVars>>

\* load_yaml line 26, yaml.safe_load raises: main's except, lines 266-268
ParseFails ==
    /\ pc = "parse"
    /\ parserCalled' = TRUE
    /\ Exit(2)
    /\ UNCHANGED <<fileExists, text, doc, version, errors, called, tabLines, printed,
                   summary, traceback>>
    /\ UNCHANGED <<syncVars, mergeVars>>

\* lines 270-275
DetectVersion ==
    /\ pc = "detect"
    /\ version' = detect_version(doc)
    /\ IF detect_version(doc) = "none" THEN Exit(2)
       ELSE pc' = "validate" /\ exitStatus' = exitStatus
    /\ UNCHANGED <<fileExists, text, doc, errors, called, parserCalled, tabLines,
                   printed, summary, traceback>>
    /\ UNCHANGED <<syncVars, mergeVars>>

\* an exception no handler catches: the interpreter prints the traceback, exit status 1
Uncaught == traceback' = TRUE /\ Exit(1)

\* lines 277-278
ValidateV1 ==
    /\ pc = "validate"
    /\ version = "1.x"
    /\ called' = "v1"
    /\ LET r == validate_v1(doc)
       IN  IF r.raised THEN Uncaught /\ errors' = errors
           ELSE /\ errors' = r.errors
                /\ pc' = "report"
                /\ UNCHANGED <<traceback, exitStatus>>
    /\ UNCHANGED <<fileExists, text, doc, version, parserCalled, tabLines, printed, summary>>
    /\ UNCHANGED <<syncVars, mergeVars>>

\* lines 279-280
ValidateV2 ==
    /\ pc = "validate"
    /\ version # "1.x"
    /\ called' = "v2"
    /\ LET r == validate_v2(doc)
       IN  IF r.raised THEN Uncaught /\ errors' = errors
           ELSE /\ errors' = r.errors
                /\ pc' = "report"
                /\ UNCHANGED <<traceback, exitStatus>>
    /\ UNCHANGED <<fileExists, text, doc, version, parserCalled, tabLines, printed, summary>>
    /\ UNCHANGED <<syncVars, mergeVars>>

\* lines 282-286
ReportFailed ==
    /\ pc = "report"
    /\ errors # <<>>
    /\ printed' = errors
    /\ Exit(1)
    /\ UNCHANGED <<fileExists, text, doc, version, errors, called, parserCalled,
                   tabLines, summary, traceback>>
    /\ UNCHANGED <<syncVars, mergeVars>>

\* lines 288-291
PrintSummaryV1 ==
    /\ pc = "report"
    /\ errors = <<>>
    /\ version = "1.x"
    /\ summary' = "v1"
    /\ IF print_summary_v1_raises(doc) THEN Uncaught
       ELSE Exit(0) /\ traceback' = traceback
    /\ UNCHANGED <<fileExists, text, doc, version, errors, called, parserCalled,
                   tabLines, printed>>
    /\ UNCHANGED <<syncVars, mergeVars>>

\* lines 288-293
PrintSummaryV2 ==
    /\ pc = "report"
    /\ errors = <<>>
    /\ version # "1.x"
    /\ summary' = "v2"
    /\ IF print_summary_v2_raises(doc) THEN Uncaught
       ELSE Exit(0) /\ traceback' = traceback
    /\ UNCHANGED <<fileExists, text, doc, version, errors, called, parserCalled,
                   tabLines, printed>>
    /\ UNCHANGED <<syncVars, mergeVars>>

Next ==
    \/ CheckPath
    \/ ReadFails
    \/ ReadText
    \/ ParseYaml
    \/ ParseFails
    \/ DetectVersion
    \/ ValidateV1
    \/ ValidateV2
    \/ ReportFailed
    \/ PrintSummaryV1
    \/ PrintSummaryV2

Spec == Init /\ [][Next]_allVars

---------------------------------------------------------------------------
(* sync_webapp.py: sync_yaml over the three paths SOURCE_YAML, DEST_DIR, DEST_YAML *)

\* contents of a file
Contents == {"", "a: 1", "b: 2"}

NoEntry == [kind |-> "absent", content |-> "", inner |-> "none"]

\* what may be at SOURCE_YAML: nothing, a regular file, a directory
SourceStates ==
    {[kind |-> "absent", content |-> ""], [kind |-> "dir", content |-> ""]}
    \cup {[kind |-> "file", content |-> c] : c \in Contents}

\* what may be at DEST_YAML inside an existing DEST_DIR: nothing, a regular
\* file, a link to the source file, or a directory that may hold an aismm.yaml
DestYamlStates(src) ==
    {NoEntry}
    \cup {[kind |-> "file", content |-> c, inner |-> "none"] : c \in Contents}
    \cup (IF src.kind = "file"
          THEN {[kind |-> "samefile", content |-> src.content, inner |-> "none"]}
          ELSE {})
    \cup {[kind |-> "dir", content |-> "", inner |-> c] : c \in Contents \cup {"none"}}

\* validate_yaml.py is not run
MainOff ==
    /\ pc = "start"
    /\ fileExists = FALSE
    /\ text = <<>>
    /\ doc = PyNull
    /\ version = "unset"
    /\ errors = <<>>
    /\ called = "none"
    /\ parserCalled = FALSE
    /\ tabLines = <<>>
    /\ printed = <<>>
    /\ summary = "none"
    /\ traceback = FALSE
    /\ exitStatus = -1

SyncInit ==
    /\ MainOff
    /\ MergeOff
    /\ syncPc = "start"
    /\ source \in SourceStates
    /\ destDir \in {"absent", "dir", "file"}
    /\ destYaml \in (IF destDir = "dir" THEN DestYamlStates(source) ELSE {NoEntry})
    /\ syncExit = -1

\* sys.exit(1), lines 17, 26, 34
SyncExit(code) == syncPc' = "exit" /\ syncExit' = code

\* lines 15-17
SyncCheckSource ==
    /\ syncPc = "start"
    /\ IF source.kind = "absent" THEN SyncExit(1)
       ELSE syncPc' = "mkdir" /\ syncExit' = syncExit
    /\ UNCHANGED <<source, destDir, destYaml>>
    /\ UNCHANGED <<vars, mergeVars>>

\* line 20, os.path.exists(DEST_DIR) is true
SyncDirExists ==
    /\ syncPc = "mkdir"
    /\ destDir # "absent"
    /\ syncPc' = "copy"
    /\ UNCHANGED <<source, destDir, destYaml, syncExit>>
    /\ UNCHANGED <<vars, mergeVars>>

\* lines 20-23, os.makedirs succeeds
SyncMakeDirs ==
    /\ syncPc = "mkdir"
    /\ destDir = "absent"
    /\ destDir' = "dir"
    /\ syncPc' = "copy"
    /\ UNCHANGED <<source, destYaml, syncExit>>
    /\ UNCHANGED <<vars, mergeVars>>

\* lines 20-26, os.makedirs raises OSError
SyncMakeDirsFails ==
    /\ syncPc = "mkdir"
    /\ destDir = "absent"
    /\ SyncExit(1)
    /\ UNCHANGED <<source, destDir, destYaml>>
    /\ UNCHANGED <<vars, mergeVars>>

\* shutil.copy2 can open the source and a destination file to write
CanCopy ==
    /\ source.kind = "file"
    /\ destDir = "dir"
    /\ destYaml.kind # "samefile"

\* what shutil.copy2(SOURCE_YAML, DEST_YAML) leaves at DEST_YAML when it has
\* written c: a destination that is a directory receives the file inside it
Written(c) ==
    IF destYaml.kind = "dir" THEN [destYaml EXCEPT !.inner = c]
    ELSE [kind |-> "file", content |-> c, inner |-> "none"]

\* lines 29-31, shutil.copy2 returns
SyncCopy ==
    /\ syncPc = "copy"
    /\ CanCopy
    /\ destYaml' = Written(source.content)
    /\ SyncExit(0)
    /\ UNCHANGED <<source, destDir>>
    /\ UNCHANGED <<vars, mergeVars>>

\* lines 29-34, shutil.copy2 raises: before it opens the destination, after
\* it truncated it, or after it wrote the content (copystat fails)
SyncCopyFails ==
    /\ syncPc = "copy"
    /\ \/ destYaml' = destYaml
       \/ CanCopy /\ destYaml' = Written("")
       \/ CanCopy /\ destYaml' = Written(source.content)
    /\ SyncExit(1)
    /\ UNCHANGED <<source, destDir>>
    /\ UNCHANGED <<vars, mergeVars>>

SyncNext ==
    \/ SyncCheckSource
    \/ SyncDirExists
    \/ SyncMakeDirs
    \/ SyncMakeDirsFails
    \/ SyncCopy
    \/ SyncCopyFails

SpecSync == SyncInit /\ [][SyncNext]_allVars

---------------------------------------------------------------------------
(* merge_enhancements.py: the line loop of add_enhancements_to_yaml.  A line *)
(* is [indent, body]: the count of its leading blanks and its text without  *)
(* them, so line.strip() is body.                                           *)

Line(ind, b) == [indent |-> ind, body |-> b]

\* data['domains'].keys()
domain_keys == <<"d1", "d2">>

\* f"{domain_key}:"
HeaderOf == [d1 |-> "d1:", d2 |-> "d2:"]

\* the lines of the file
InputLines ==
    { Line(2, "d1:"), Line(2, "d2:"), Line(4, "weight: 0.1"),
      Line(4, "framework_alignment:"), Line(8, "frameworks:"),
      Line(6, "- indicator: x"), Line(4, "levels:"), Line(0, "") }

\* body.startswith(prefix), for the bodies of InputLines
StartsWith(body, prefix) ==
    \/ body = prefix
    \/ <<body, prefix>> \in {<<"weight: 0.1", "weight:">>,
                              <<"- indicator: x", "- indicator:">>}

KEY_CONTROLS ==
    [d1 |-> <<"- \"Control 1a\"", "- \"Control 1b\"">>, d2 |-> <<"- \"Control 2\"">>]

MITRE_ATLAS_MAPPINGS ==
    [d1 |-> "mitre_atlas: [\"AML.T0001\"]", d2 |-> "mitre_atlas: [\"AML.T0002\"]"]

OWASP_GENAI_MAPPINGS ==
    [d1 |-> "owasp_genai: [\"LLM01\"]", d2 |-> "owasp_genai: [\"LLM02\"]"]

\* lines 310-315: the block appended after the weight line
KeyControlsBlock(d) ==
    IF d \in DOMAIN KEY_CONTROLS
    THEN <<Line(0, ""), Line(4, "key_controls:")>>
         \o [c \in 1..Len(KEY_CONTROLS[d]) |-> Line(6, KEY_CONTROLS[d][c])]
    ELSE <<>>

\* lines 345-356: the two lines appended after the last framework line
FrameworkLines(d, ind) ==
    (IF d \in DOMAIN MITRE_ATLAS_MAPPINGS
     THEN <<Line(ind, MITRE_ATLAS_MAPPINGS[d])>> ELSE <<>>)
    \o (IF d \in DOMAIN OWASP_GENAI_MAPPINGS
        THEN <<Line(ind, OWASP_GENAI_MAPPINGS[d])>> ELSE <<>>)

\* lines[i]
CurrentLine == lines[index + 1]

\* lines 300-304: the domain keys whose header this line is
Matching(line) ==
    SelectSeq(domain_keys, LAMBDA k :
        line.body = HeaderOf[k] \/ (line.indent = 2 /\ line.body = HeaderOf[k]))

\* current_domain after lines 300-304
DomainNow == IF Matching(CurrentLine) # <<>> THEN Head(Matching(CurrentLine))
             ELSE current_domain

\* in_framework_alignment after lines 300-304
AlignmentAfterHeader ==
    IF Matching(CurrentLine) # <<>> THEN FALSE ELSE in_framework_alignment

\* line 307
WeightBranch ==
    /\ DomainNow # "None"
    /\ StartsWith(CurrentLine.body, "weight:")
    /\ DomainNow \notin added_key_controls_for_domain

\* line 324: levels: or indicators:
EndsAlignment(line) ==
    StartsWith(line.body, "levels:") \/ StartsWith(line.body, "indicators:")

\* in_framework_alignment after lines 320-326
AlignmentNow ==
    LET fa == IF CurrentLine.body = "framework_alignment:" THEN TRUE
              ELSE AlignmentAfterHeader
    IN  IF fa /\ EndsAlignment(CurrentLine) THEN FALSE ELSE fa

\* line 329
IsFrameworks == AlignmentNow /\ CurrentLine.body = "frameworks:"

\* in_frameworks after lines 324-332
FrameworksNow ==
    IF IsFrameworks THEN TRUE
    ELSE IF (CurrentLine.body = "framework_alignment:" \/ AlignmentAfterHeader)
            /\ EndsAlignment(CurrentLine)
    THEN FALSE
    ELSE in_frameworks

\* last_framework_indent after line 332
IndentNow == IF IsFrameworks THEN CurrentLine.indent + 2 ELSE last_framework_indent

\* line 337
next_line == IF index + 1 < Len(lines) THEN lines[index + 2] ELSE Line(0, "")

\* lines 335-342
InsertBranch ==
    /\ FrameworksNow
    /\ DomainNow # "None"
    /\ \/ StartsWith(next_line.body, "- indicator:")
       \/ StartsWith(next_line.body, "levels:")
       \/ StartsWith(next_line.body, "indicators:")

MergeInit ==
    /\ MainOff
    /\ SyncOff
    /\ mergePc = "loop"
    /\ lines \in UNION {[1..n -> InputLines] : n \in 1..MaxLines}
    /\ index = 0
    /\ new_lines = <<>>
    /\ current_domain = "None"
    /\ in_framework_alignment = FALSE
    /\ in_frameworks = FALSE
    /\ last_framework_indent = 0
    /\ added_key_controls_for_domain = {}
    /\ written = <<>>

\* lines 307-317 with the key_controls block not recorded for the domain
MergeWeightUnrecorded ==
    /\ mergePc = "loop"
    /\ index < Len(lines)
    /\ WeightBranch
    /\ new_lines' = new_lines \o <<CurrentLine>> \o KeyControlsBlock(DomainNow)
    /\ current_domain' = DomainNow
    /\ in_framework_alignment' = AlignmentAfterHeader
    /\ index' = index + 1
    /\ UNCHANGED <<mergePc, lines, in_frameworks, last_framework_indent,
                   added_key_controls_for_domain, written>>
    /\ UNCHANGED <<vars, syncVars>>

\* one iteration that takes the branch of lines 307-317
MergeWeight ==
    /\ mergePc = "loop"
    /\ index < Len(lines)
    /\ WeightBranch
    /\ new_lines' = new_lines \o <<CurrentLine>> \o KeyControlsBlock(DomainNow)
    /\ added_key_controls_for_domain' =
          IF DomainNow \in DOMAIN KEY_CONTROLS
          THEN added_key_controls_for_domain \cup {DomainNow}
          ELSE added_key_controls_for_domain
    /\ current_domain' = DomainNow
    /\ in_framework_alignment' = AlignmentAfterHeader
    /\ index' = index + 1
    /\ UNCHANGED <<mergePc, lines, in_frameworks, last_framework_indent, written>>
    /\ UNCHANGED <<vars, syncVars>>

\* one iteration that takes the branch of lines 335-361
MergeFrameworks ==
    /\ mergePc = "loop"
    /\ index < Len(lines)
    /\ ~WeightBranch
    /\ InsertBranch
    /\ new_lines' = new_lines \o <<CurrentLine>> \o FrameworkLines(DomainNow, IndentNow)
    /\ current_domain' = DomainNow
    /\ in_framework_alignment' = AlignmentNow
    /\ in_frameworks' = FALSE
    /\ last_framework_indent' = IndentNow
    /\ index' = index + 1
    /\ UNCHANGED <<mergePc, lines, added_key_controls_for_domain, written>>
    /\ UNCHANGED <<vars, syncVars>>

\* one iteration that falls through to lines 363-364
MergeAppend ==
    /\ mergePc = "loop"
    /\ index < Len(lines)
    /\ ~WeightBranch
    /\ ~InsertBranch
    /\ new_lines' = new_lines \o <<CurrentLine>>
    /\ current_domain' = DomainNow
    /\ in_framework_alignment' = AlignmentNow
    /\ in_frameworks' = FrameworksNow
    /\ last_framework_indent' = IndentNow
    /\ index' = index + 1
    /\ UNCHANGED <<mergePc, lines, added_key_controls_for_domain, written>>
    /\ UNCHANGED <<vars, syncVars>>

\* the loop ends, lines 367-368 write the output back
MergeWrite ==
    /\ mergePc = "loop"
    /\ ~(index < Len(lines))
    /\ written' = new_lines
    /\ mergePc' = "done"
    /\ UNCHANGED <<lines, index, new_lines, current_domain, in_framework_alignment,
                   in_frameworks, last_framework_indent, added_key_controls_for_domain>>
    /\ UNCHANGED <<vars, syncVars>>

MergeNext ==
    \/ MergeWeight
    \/ MergeFrameworks
    \/ MergeAppend
    \/ MergeWrite

\* the interpreter runs the loop on: a step that can be taken is taken
SpecMerge == MergeInit /\ [][MergeNext]_allVars /\ WF_allVars(MergeNext)

---------------------------------------------------------------------------
(* Properties *)

\* the root carries the Structured signature, the Legacy signature
StructuredSignature(d) == IsDict(d) /\ Has(d, "aismm")

LegacySignature(d) == IsDict(d) /\ Has(d, "domains") /\ Has(d, "pillars")

Detected == version \in {"1.x", "2.x"}

\* the validator main called has returned its defect list
Returned(v) ==
    /\ called = v
    /\ pc \in {"report", "exit"}
    /\ ~(traceback /\ summary = "none")

\* the defects of the returned list that carry this path
At(path) == SelectSeq(errors, LAMBDA e : e.path = path)

OfKind(kind, path) == SelectSeq(errors, LAMBDA e : e.kind = kind /\ e.path = path)

\* C1: a document whose root carries both the Structured and the Legacy
\* signature, or neither, is classified Unknown, and main exits before it
\* calls a validator.
C1_ShapeExclusivity ==
    (version # "unset" /\ StructuredSignature(doc) = LegacySignature(doc))
        => (version = "none" /\ called = "none" /\ pc = "exit")

\* the wrapper key holds a mapping that has a 'components' key
WrapperWithComponents(d) ==
    /\ IsDict(d)
    /\ Has(d, "aismm")
    /\ IsDict(Get(d, "aismm"))
    /\ Has(Get(d, "aismm"), "components")

\* C2: detect_version answers Structured only for a mapping root whose 'aismm'
\* value is a mapping with a 'components' key; otherwise Legacy when the root
\* has both 'domains' and 'pillars', else Unknown; a root that is no mapping
\* is Unknown.
C2_DetectVersion ==
    version # "unset" =>
        version = (IF WrapperWithComponents(doc) THEN "2.x"
                   ELSE IF LegacySignature(doc) THEN "1.x"
                   ELSE "none")

\* C3: the validator main selected returns a defect list and never raises,
\* whatever the types of the values in the document.
C3_ValidatorNeverRaises ==
    (called # "none" /\ summary = "none") => ~traceback

AllowedType(x) == x.t = "str" /\ x.s \in allowed_types

\* the type of a Legacy question: its 'type', or its 'question_type'
TypeOfV1(q) ==
    IF Has(q, "type") THEN Get(q, "type") ELSE GetOr(q, "question_type", PyNull)

\* the questions of a Legacy document, as <<domain index, question index>>
QuestionPlaces(domains) ==
    UNION { IF /\ IsDict(domains.items[i].v)
               /\ Has(domains.items[i].v, "questions")
               /\ IsList(Get(domains.items[i].v, "questions"))
            THEN {<<i, j>> : j \in 1..Len(Get(domains.items[i].v, "questions").items)}
            ELSE {}
            : i \in 1..Len(domains.items) }

QuestionAt(domains, pl) == Get(domains.items[pl[1]].v, "questions").items[pl[2]].v

\* A Legacy document with three independent defects and nothing else wrong:
\* one pillar lacks one required field, one domain's pillar names no declared
\* pillar, one question has a type outside the enumeration.
ThreeDefects(d) ==
    /\ LegacySignature(d)
    /\ \A i \in 1..Len(required_keys) : Has(d, required_keys[i])
    /\ Get(d, "scoring_config") = ScoringFull
    /\ LET pillars == Get(d, "pillars")
           domains == Get(d, "domains")
       IN  /\ IsDict(pillars) /\ IsDict(domains)
           /\ \A i \in 1..Len(pillars.items) : IsDict(pillars.items[i].v)
           /\ Cardinality({ <<i, f>> \in (1..Len(pillars.items))
                                \X {"id", "name", "description", "weight"} :
                               ~Has(pillars.items[i].v, f) }) = 1
           /\ \A i \in 1..Len(domains.items) :
                 LET ddata == domains.items[i].v
                 IN  /\ IsDict(ddata)
                     /\ \A f \in {"id", "name", "description", "pillar"} : Has(ddata, f)
                     /\ Get(ddata, "pillar").t = "str"
                     /\ Get(ddata, "pillar").s # ""
                     /\ Has(ddata, "levels")
                     /\ IsDict(Get(ddata, "levels"))
                     /\ Keys(Get(ddata, "levels")) = expected_levels
                     /\ Has(ddata, "questions") => IsList(Get(ddata, "questions"))
           /\ Cardinality({ i \in 1..Len(domains.items) :
                               ~Has(pillars, Get(domains.items[i].v, "pillar").s) }) = 1
           /\ \A pl \in QuestionPlaces(domains) :
                 LET q == QuestionAt(domains, pl)
                 IN  IsDict(q) /\ \A f \in {"id", "text", "question_type"} : Has(q, f)
           /\ Cardinality({ pl \in QuestionPlaces(domains) :
                               ~AllowedType(TypeOfV1(QuestionAt(domains, pl))) }) = 1

\* C4: defects are accumulated: one run over a document with three independent
\* defects (a pillar missing a required field, a domain with a dangling pillar
\* reference, a question with a type outside the enumeration) returns a defect
\* list of length exactly three.
C4_ThreeDefectsAccumulated ==
    (called = "v1" /\ pc \in {"report", "exit"} /\ ThreeDefects(doc))
        => (~traceback /\ Len(errors) = 3)

\* C5: once the shape is detected and the validator has returned, main exits
\* with status zero iff the defect list is empty; a non-empty list ends in a
\* non-zero exit after one printed line per defect, in order, and no summary;
\* a missing file, a load failure and an undetectable shape end in a non-zero
\* exit before any validator runs.
C5_ExitStatus ==
    pc = "exit" =>
        /\ (Detected /\ (Returned("v1") \/ Returned("v2"))) =>
              /\ (exitStatus = 0) <=> (errors = <<>>)
              /\ errors # <<>> => (printed = errors /\ summary = "none")
        /\ ~Detected => (exitStatus # 0 /\ called = "none" /\ summary = "none")

\* the 1-based numbers of the lines of t that hold a tab: a character's line
\* is one more than the number of line breaks before it
TabLineNumbers(t) ==
    { 1 + Cardinality({j \in 1..(p - 1) : t[j] = LF}) :
        p \in {i \in 1..Len(t) : t[i] = TAB} }

\* C6: for every text that holds a tab, load_yaml fails with an error carrying
\* the ascending list of the 1-based numbers of exactly the lines that hold a
\* tab, the parser is never called, and main exits non-zero without reaching
\* shape detection or validation.
C6_TabRejection ==
    HasTab(text) =>
        /\ ~parserCalled /\ version = "unset" /\ called = "none"
        /\ pc \in {"start", "read", "exit"}
        /\ pc = "exit" =>
              /\ exitStatus = 2
              /\ Range(tabLines) = TabLineNumbers(text)
              /\ \A i, j \in 1..Len(tabLines) : i < j => tabLines[i] < tabLines[j]

C6_Witness ==
    pc = "exit" /\ text = <<TAB, LF, LF, TAB>> /\ tabLines = <<1, 3>>

CanonicalLevels == {"level_" \o ToString(i) : i \in 1..NumLevels}

\* the level defects validate_v1 owes a domain whose 'levels' has key set K
OwedLevelDefects(K, path) ==
    (IF CanonicalLevels \ K # {}
     THEN <<Defect("levels_missing", path, CanonicalLevels \ K)>> ELSE <<>>)
    \o (IF K \ CanonicalLevels # {}
        THEN <<Defect("levels_unexpected", path, K \ CanonicalLevels)>> ELSE <<>>)

\* C7: for every Legacy domain that is a mapping, the list validate_v1 returns
\* holds no level defect for it iff the key set of its 'levels' mapping is
\* {level_1..level_5}; otherwise it holds one 'missing' defect naming exactly
\* the absent keys (if any) and one 'unexpected keys' defect naming exactly
\* the extra keys (if any); the defects of all domains are in the one list.
C7_LevelSetExactness ==
    (Returned("v1") /\ IsDict(Get(doc, "domains"))) =>
        \A i \in 1..Len(Get(doc, "domains").items) :
            LET did == Get(doc, "domains").items[i].k
                ddata == Get(doc, "domains").items[i].v
                levels == GetOr(ddata, "levels", EmptyDict)
                path == <<"domains", did, "levels">>
            IN  (IsDict(ddata) /\ IsDict(levels)) =>
                    /\ (At(path) = <<>>) <=> (Keys(levels) = CanonicalLevels)
                    /\ At(path) = OwedLevelDefects(Keys(levels), path)

C7_Witness ==
    /\ Returned("v1")
    /\ OfKind("levels_missing", <<"domains", "d1", "levels">>)
          = <<Defect("levels_missing", <<"domains", "d1", "levels">>, {"level_2", "level_5"})>>
    /\ OfKind("levels_unexpected", <<"domains", "d1", "levels">>)
          = <<Defect("levels_unexpected", <<"domains", "d1", "levels">>, {"level_6"})>>
    /\ OfKind("levels_unexpected", <<"domains", "d2", "levels">>)
          = <<Defect("levels_unexpected", <<"domains", "d2", "levels">>, {"level_6"})>>

\* the Structured domains of a document, as <<component index, domain index>>
DomainPlaces(d) ==
    IF ~(WrapperWithComponents(d) /\ IsList(Get(Get(d, "aismm"), "components"))) THEN {}
    ELSE LET comps == Get(Get(d, "aismm"), "components")
         IN  UNION { IF /\ IsDict(comps.items[c].v)
                        /\ Has(comps.items[c].v, "domains")
                        /\ IsList(Get(comps.items[c].v, "domains"))
                     THEN {<<c, i>> : i \in 1..Len(Get(comps.items[c].v, "domains").items)}
                     ELSE {}
                     : c \in 1..Len(comps.items) }

DomainAt(d, pl) ==
    Get(Get(Get(d, "aismm"), "components").items[pl[1]].v, "domains").items[pl[2]].v

\* a sequence of exactly five entries whose 'level' fields are 1..5 in any order
ExactlyOneToFive(mls) ==
    /\ Len(mls.items) = NumLevels
    /\ \A i \in 1..Len(mls.items) :
          /\ IsDict(mls.items[i].v)
          /\ Has(mls.items[i].v, "level")
          /\ IsNumber(Get(mls.items[i].v, "level"))
    /\ {Get(mls.items[i].v, "level").n : i \in 1..Len(mls.items)} = 1..NumLevels

\* C8: for every Structured domain whose 'maturity_levels' is a list, the list
\* validate_v2 returns holds no maturity-level defect iff that list is exactly
\* five entries whose 'level' fields are 1, 2, 3, 4, 5 in any order.
C8_MaturityLevelsExactness ==
    Returned("v2") =>
        \A pl \in DomainPlaces(doc) :
            LET dom == DomainAt(doc, pl)
                path == <<"components", ToString(pl[1]), "domains", ToString(pl[2]),
                          "maturity_levels">>
            IN  (IsDict(dom) /\ Has(dom, "maturity_levels")
                    /\ IsList(Get(dom, "maturity_levels"))) =>
                    ((At(path) = <<>>) <=> ExactlyOneToFive(Get(dom, "maturity_levels")))

\* C9: for every Legacy domain with a 'pillar' field whose value matches no
\* declared pillar key, the list validate_v1 returns holds exactly one
\* dangling-reference defect for that domain.
C9_DanglingReference ==
    (Returned("v1") /\ IsDict(Get(doc, "domains")) /\ IsDict(Get(doc, "pillars"))) =>
        \A i \in 1..Len(Get(doc, "domains").items) :
            LET did == Get(doc, "domains").items[i].k
                ddata == Get(doc, "domains").items[i].v
            IN  (/\ IsDict(ddata)
                 /\ Has(ddata, "pillar")
                 /\ ~(Get(ddata, "pillar").t = "str"
                        /\ Has(Get(doc, "pillars"), Get(ddata, "pillar").s))) =>
                    Len(OfKind("pillar_not_found", <<"domains", did, "pillar">>)) = 1

\* the questions of a Structured document
QuestionsV2(d) ==
    IF /\ WrapperWithComponents(d)
       /\ IsDict(GetOr(Get(d, "aismm"), "assessment_questionnaire", PyNull))
       /\ IsList(GetOr(Get(Get(d, "aismm"), "assessment_questionnaire"), "questions", PyNull))
    THEN Get(Get(Get(d, "aismm"), "assessment_questionnaire"), "questions").items
    ELSE <<>>

\* C10: in both shapes every question whose type is not one of the five
\* allowed types yields exactly one invalid-enum defect naming the value; no
\* question with an unrecognized type is accepted silently.
C10_EnumEnforcement ==
    /\ Returned("v2") =>
          \A qi \in 1..Len(QuestionsV2(doc)) :
              LET qq == QuestionsV2(doc)[qi].v
                  ty == GetOr(qq, "type", PyNull)
                  path == <<"assessment_questionnaire", "questions", ToString(qi)>>
              IN  (IsDict(qq) /\ ~AllowedType(ty)) =>
                      OfKind("unsupported_type", path)
                          = <<Defect("unsupported_type", path, {Repr(ty)})>>
    /\ (Returned("v1") /\ IsDict(Get(doc, "domains"))) =>
          \A pl \in QuestionPlaces(Get(doc, "domains")) :
              LET q == QuestionAt(Get(doc, "domains"), pl)
                  did == Get(doc, "domains").items[pl[1]].k
                  path == <<"domains", did, "questions", ToString(pl[2])>>
              IN  (IsDict(q) /\ ~AllowedType(TypeOfV1(q))) =>
                      Len(OfKind("unsupported_type", path)) = 1

\* the key is present and its value is not of the container type t
WrongType(m, key, t) == Has(m, key) /\ Get(m, key).t # t

\* a wrong-container-type defect is in the returned list for this path
Reported(kind, path) == OfKind(kind, path) # <<>>

\* C11: whenever a container field declared to be a list or mapping is
\* present with a value of any other type, empty and falsy values included,
\* the defect list the validator returns holds a wrong-container-type defect
\* for that field.
C11_WrongTypeAlwaysDefect ==
    /\ Returned("v1") =>
          /\ \A key \in {"scoring_config", "pillars", "domains"} :
                WrongType(doc, key, "map") => Reported("should_be_mapping", <<key>>)
          /\ IsDict(Get(doc, "domains")) =>
                \A i \in 1..Len(Get(doc, "domains").items) :
                    LET did == Get(doc, "domains").items[i].k
                        ddata == Get(doc, "domains").items[i].v
                    IN  IsDict(ddata) =>
                          /\ WrongType(ddata, "levels", "map") =>
                                Reported("should_be_mapping", <<"domains", did, "levels">>)
                          /\ \A key \in {"framework_alignment", "key_controls", "questions"} :
                                WrongType(ddata, key, "list") =>
                                    Reported("should_be_list", <<"domains", did, key>>)
    /\ (Returned("v2") /\ IsDict(Get(doc, "aismm"))) =>
          LET aismm == Get(doc, "aismm")
              q == GetOr(aismm, "assessment_questionnaire", PyNull)
          IN  /\ WrongType(aismm, "components", "list") =>
                    Reported("should_be_list", <<"components">>)
              /\ \A c \in 1..(IF IsList(GetOr(aismm, "components", PyNull))
                               THEN Len(Get(aismm, "components").items) ELSE 0) :
                    LET comp == Get(aismm, "components").items[c].v
                    IN  (IsDict(comp) /\ WrongType(comp, "domains", "list")) =>
                            Reported("should_be_list",
                                     <<"components", ToString(c), "domains">>)
              /\ \A pl \in DomainPlaces(doc) :
                    LET dom == DomainAt(doc, pl)
                        dprefix == <<"components", ToString(pl[1]),
                                     "domains", ToString(pl[2])>>
                    IN  IsDict(dom) =>
                          /\ WrongType(dom, "mappings", "map") =>
                                Reported("should_be_mapping", dprefix \o <<"mappings">>)
                          /\ WrongType(dom, "maturity_levels", "list") =>
                                Reported("should_be_list", dprefix \o <<"maturity_levels">>)
              /\ (IsDict(q) /\ WrongType(q, "questions", "list")) =>
                    Reported("should_be_list", <<"assessment_questionnaire", "questions">>)

\* C12: sync_yaml with the source missing exits non-zero and leaves the
\* destination directory and the destination file as they were; a run that
\* ends with status 0 leaves the destination directory in place and a
\* destination file whose content is the source's; the source is never
\* changed; a failed directory creation or copy ends in a non-zero status.
C12_SyncFrameEffect ==
    /\ [][(syncPc = "start" /\ source.kind = "absent") =>
              /\ syncPc' = "exit"
              /\ syncExit' # 0
              /\ destDir' = destDir
              /\ destYaml' = destYaml]_allVars
    /\ [](syncExit = 0 =>
              /\ destDir = "dir"
              /\ destYaml.kind = "file"
              /\ destYaml.content = source.content)
    /\ [][source' = source]_allVars
    /\ [][(SyncMakeDirsFails \/ SyncCopyFails) => (syncPc' = "exit" /\ syncExit' # 0)]_allVars

\* C13: when validate_v1 returns for a document whose 'pillars' is not a
\* mapping, its defect list holds the "'pillars' should be a mapping" defect
\* once and no dangling-reference defect for any domain.
C13_CrossReferenceOnlyForMapping ==
    (Returned("v1") /\ ~IsDict(Get(doc, "pillars"))) =>
        /\ Len(OfKind("should_be_mapping", <<"pillars">>)) = 1
        /\ \A i \in 1..Len(errors) : errors[i].kind # "pillar_not_found"

\* the defects reported for places inside the element at path
Below(path) ==
    SelectSeq(errors, LAMBDA e : /\ Len(e.path) > Len(path)
                                 /\ SubSeq(e.path, 1, Len(path)) = path)

\* exactly one defect for the element at path, none inside it
OneDefect(path) == Len(At(path)) = 1 /\ Below(path) = <<>>

\* the defects for the field key of the element at parent: those that carry the
\* field's path, and the parent's "missing" defect that names the field
ForField(parent, key) ==
    SelectSeq(errors, LAMBDA e :
        \/ e.path = parent \o <<key>>
        \/ e.kind = "missing" /\ e.path = parent /\ e.names = {key})

\* exactly one defect for a container field of the wrong type, none inside it
OneDefectForField(m, parent, key, t) ==
    WrongType(m, key, t) =>
        Len(ForField(parent, key)) = 1 /\ Below(parent \o <<key>>) = <<>>

\* the items of a list or mapping, none for any other value
ItemsOf(x) == IF IsList(x) \/ IsDict(x) THEN x.items ELSE <<>>

\* C14: in the defect list a validator returns, every pillar, Legacy domain,
\* Legacy question, component, Structured domain, maturity-level entry and
\* Structured question that is not a mapping, and every container field that
\* is not of its container type, has exactly one defect, and no defect is
\* reported for anything inside it.
C14_TypeCheckedOnce ==
    /\ Returned("v1") =>
          /\ \A key \in {"scoring_config", "pillars", "domains"} :
                OneDefectForField(doc, <<>>, key, "map")
          /\ \A i \in 1..Len(ItemsOf(Get(doc, "pillars"))) :
                LET pl == Get(doc, "pillars").items[i]
                IN  (IsDict(Get(doc, "pillars")) /\ ~IsDict(pl.v)) =>
                        OneDefect(<<"pillars", pl.k>>)
          /\ IsDict(Get(doc, "domains")) =>
                \A i \in 1..Len(Get(doc, "domains").items) :
                    LET did == Get(doc, "domains").items[i].k
                        ddata == Get(doc, "domains").items[i].v
                        prefix == <<"domains", did>>
                    IN  IF ~IsDict(ddata) THEN OneDefect(prefix)
                        ELSE /\ OneDefectForField(ddata, prefix, "levels", "map")
                             /\ \A key \in {"framework_alignment", "key_controls",
                                              "questions"} :
                                   OneDefectForField(ddata, prefix, key, "list")
                             /\ IsList(GetOr(ddata, "questions", PyNull)) =>
                                   \A qi \in 1..Len(Get(ddata, "questions").items) :
                                       ~IsDict(Get(ddata, "questions").items[qi].v) =>
                                           OneDefect(prefix \o <<"questions", ToString(qi)>>)
    /\ (Returned("v2") /\ IsDict(Get(doc, "aismm"))) =>
          LET aismm == Get(doc, "aismm")
              q == GetOr(aismm, "assessment_questionnaire", PyNull)
              comps == GetOr(aismm, "components", PyNull)
          IN  /\ OneDefectForField(aismm, <<>>, "components", "list")
              /\ \A c \in 1..(IF IsList(comps) THEN Len(comps.items) ELSE 0) :
                    LET comp == comps.items[c].v
                        prefix == <<"components", ToString(c)>>
                    IN  IF ~IsDict(comp) THEN OneDefect(prefix)
                        ELSE OneDefectForField(comp, prefix, "domains", "list")
              /\ \A pl \in DomainPlaces(doc) :
                    LET dom == DomainAt(doc, pl)
                        dprefix == <<"components", ToString(pl[1]),
                                     "domains", ToString(pl[2])>>
                        mls == GetOr(dom, "maturity_levels", PyNull)
                    IN  IF ~IsDict(dom) THEN OneDefect(dprefix)
                        ELSE /\ OneDefectForField(dom, dprefix, "mappings", "map")
                             /\ OneDefectForField(dom, dprefix, "maturity_levels", "list")
                             /\ \A mi \in 1..(IF IsList(mls) THEN Len(mls.items) ELSE 0) :
                                   ~IsDict(mls.items[mi].v) =>
                                       Len(At(dprefix \o <<"maturity_levels">>))
                                         + Len(Below(dprefix \o <<"maturity_levels">>)) = 1
              /\ IsDict(q) =>
                    OneDefectForField(q, <<"assessment_questionnaire">>, "questions", "list")
              /\ \A qi \in 1..Len(QuestionsV2(doc)) :
                    ~IsDict(QuestionsV2(doc)[qi].v) =>
                        OneDefect(<<"assessment_questionnaire", "questions", ToString(qi)>>)

\* the fields of a list that the mapping m does not carry
AbsentFields(m, fields) == {f \in fields : ~Has(m, f)}

\* the missing-required-field defects with this path are one per field of absent
MissingReported(path, absent) ==
    /\ Len(OfKind("missing", path)) = Cardinality(absent)
    /\ {OfKind("missing", path)[i].names : i \in 1..Len(OfKind("missing", path))}
         = {{f} : f \in absent}

\* For every pillar, Legacy domain, Legacy question, component, Structured
\* domain and Structured question that is a mapping, the returned list holds
\* one missing-required-field defect per absent required field, at the path of
\* that element.  questionFields are the required fields of a Legacy
\* question; with nullIsAbsent a component's null 'domains' counts as absent.
RequiredFieldsReported(questionFields, nullIsAbsent) ==
    /\ (Returned("v1") /\ IsDict(Get(doc, "pillars"))) =>
          \A i \in 1..Len(Get(doc, "pillars").items) :
              LET pl == Get(doc, "pillars").items[i]
              IN  IsDict(pl.v) =>
                    MissingReported(<<"pillars", pl.k>>,
                        AbsentFields(pl.v, {"id", "name", "description", "weight"}))
    /\ (Returned("v1") /\ IsDict(Get(doc, "domains"))) =>
          /\ \A i \in 1..Len(Get(doc, "domains").items) :
                LET dd == Get(doc, "domains").items[i]
                IN  IsDict(dd.v) =>
                      MissingReported(<<"domains", dd.k>>,
                          AbsentFields(dd.v, {"id", "name", "description", "pillar"}))
          /\ \A pl \in QuestionPlaces(Get(doc, "domains")) :
                LET q == QuestionAt(Get(doc, "domains"), pl)
                    did == Get(doc, "domains").items[pl[1]].k
                IN  IsDict(q) =>
                      MissingReported(<<"domains", did, "questions", ToString(pl[2])>>,
                                      AbsentFields(q, questionFields))
    /\ (Returned("v2") /\ IsDict(Get(doc, "aismm"))) =>
          LET comps == GetOr(Get(doc, "aismm"), "components", PyNull)
          IN  /\ \A c \in 1..(IF IsList(comps) THEN Len(comps.items) ELSE 0) :
                    LET comp == comps.items[c].v
                    IN  IsDict(comp) =>
                          MissingReported(<<"components", ToString(c)>>,
                              AbsentFields(comp, {"id", "id_code", "domains"})
                              \cup (IF nullIsAbsent /\ IsNone(GetOr(comp, "domains", PyNull))
                                    THEN {"domains"} ELSE {}))
              /\ \A pl \in DomainPlaces(doc) :
                    LET dom == DomainAt(doc, pl)
                    IN  IsDict(dom) =>
                          MissingReported(<<"components", ToString(pl[1]),
                                            "domains", ToString(pl[2])>>,
                              AbsentFields(dom, {"id", "id_code", "maturity_levels"}))
              /\ \A qi \in 1..Len(QuestionsV2(doc)) :
                    LET qq == QuestionsV2(doc)[qi].v
                    IN  IsDict(qq) =>
                          MissingReported(
                              <<"assessment_questionnaire", "questions", ToString(qi)>>,
                              AbsentFields(qq, {"id", "type", "title", "help_text",
                                                "required"}))

Appended == SubSeq(new_lines', Len(new_lines) + 1, Len(new_lines'))

\* the places of new_lines that hold the first control of domain d
BlocksOf(d) == {k \in 1..Len(new_lines) : new_lines[k] = Line(6, KEY_CONTROLS[d][1])}

\* C16: the merge loop ends for every input; each iteration advances the
\* index by exactly one, leaves the input alone and appends the current input
\* line once, followed by nothing, by the key_controls block or by the
\* framework lines of the current domain, so the input lines appear in the
\* output once each and in their order; a key_controls block is appended only
\* right after a 'weight:' line, for the domain that is current and has none
\* yet, so the output holds at most one block per domain key; what is written
\* back is the output built.
C16_MergeLoop ==
    /\ <>(mergePc = "done")
    /\ [][mergePc' = "loop" =>
              /\ index' = index + 1
              /\ lines' = lines
              /\ Len(new_lines') > Len(new_lines)
              /\ SubSeq(new_lines', 1, Len(new_lines)) = new_lines
              /\ Head(Appended) = lines[index + 1]
              /\ Tail(Appended) \in {<<>>, KeyControlsBlock(current_domain'),
                                      FrameworkLines(current_domain', last_framework_indent')}
              /\ (Tail(Appended) # <<>> /\ Tail(Appended) = KeyControlsBlock(current_domain')) =>
                    /\ StartsWith(lines[index + 1].body, "weight:")
                    /\ current_domain' \notin added_key_controls_for_domain
                    /\ current_domain' \in added_key_controls_for_domain'
              /\ added_key_controls_for_domain \subseteq added_key_controls_for_domain'
          ]_allVars
    /\ [](\A d \in DOMAIN KEY_CONTROLS : Cardinality(BlocksOf(d)) <= 1)
    /\ [](mergePc = "done" => (index = Len(lines) /\ written = new_lines))

\* the loop ended on a file where two domains each met a 'weight:' line, and
\* the output holds a key_controls block for each
C16_Witness ==
    /\ mergePc = "done"
    /\ added_key_controls_for_domain = {"d1", "d2"}
    /\ Len(written) > Len(lines)
    /\ \A d \in DOMAIN KEY_CONTROLS : Cardinality(BlocksOf(d)) = 1

====
